---- MODULE Spec2Model ----
(***************************************************************************)
(* Model of the AURAX multi-model orchestrator                             *)
(* (src/backend/core/orchestrator.py), its intent router                   *)
(* (src/backend/core/model_router/router.py) and the retriever it calls    *)
(* (src/backend/core/rag/retriever.py).                                    *)
(*                                                                         *)
(* One request to generate_contextual_response is a small state machine    *)
(* whose steps are cut at the awaits on the collaborators: the retriever,  *)
(* the image adapter, the code adapter, the Ollama availability probe and  *)
(* the Ollama text generation.  Every collaborator call is appended to the *)
(* log `calls` together with the arguments it received.                    *)
(*                                                                         *)
(* Numbers: confidences are counted in units of 1/70 (70 = 1.0), score     *)
(* thresholds and document scores in units of 1/100, temperatures and      *)
(* guidance scales in units of 1/10.                                       *)
(***************************************************************************)
EXTENDS Integers, Sequences, FiniteSets, TLC

VARIABLES pc, query, model, metadata, context_score_threshold,
          route_result, model_type, context_docs, specific_model,
          formatted_prompt, outcome, calls,
          routed, http, api_route, inflight, kb, scrape

\* the variables of one generate_contextual_response request
genvars == <<pc, query, model, metadata, context_score_threshold,
             route_result, model_type, context_docs, specific_model,
             formatted_prompt, outcome, calls>>

\* `routed` holds one direct call of route_request (the router's public
\* function, which the /route endpoint also calls): its inputs, the three
\* family confidences it computed, and the RouteResult it returned.
\* `http` is one request to the /generate endpoint, `api_route` one request to
\* the /route endpoint, `inflight` the locals of two requests that are in
\* progress at the same time, `kb` the vector collection, and `scrape` one
\* call of scrape_multiple_urls.
extra == <<http, api_route, inflight, kb, scrape>>

vars == <<genvars, routed, extra>>

\* Python's None where a string or a payload is expected.
None == "<None>"

\* The answer of a collaborator that raises an exception.
Raise == "<raise>"

Min(a, b) == IF a <= b THEN a ELSE b

\* dict.get(key, default)
Get(d, k, default) == IF k \in DOMAIN d THEN d[k] ELSE default

(***************************************************************************)
(* Bounds of the model.                                                    *)
(***************************************************************************)
\* Largest number of hits the vector store answers with in one search.
MaxHits == 2

\* Largest number of documents in one add_knowledge batch.
MaxBatch == 2

\* Largest number of URLs in one scrape_multiple_urls batch.
MaxUrls == 3

(***************************************************************************)
(* ModelType enum, in declaration order.                                   *)
(***************************************************************************)
DEFAULT == "default"
CODE == "qwen3:coder"
IMAGE == "stable-diffusion"
WEB_SEARCH == "web-enhanced"

ModelType == <<DEFAULT, CODE, IMAGE, WEB_SEARCH>>

ModelTypeValues == {ModelType[i] : i \in 1..Len(ModelType)}

\* settings.default_model, copied into ollama_client.default_model
default_model == "mistral:7b-instruct-q4_K_M"

(***************************************************************************)
(* Queries.  A query is known to the router only through the patterns it   *)
(* matches; QueryFeatures records, for each sample query, the number of    *)
(* patterns of each family that re.search finds in it and whether the two  *)
(* boost patterns match.                                                   *)
(***************************************************************************)
Queries == {"", "   ",
            "Write a function to reverse a string",
            "Create an image of a red bicycle",
            "What is the latest news today",
            "What is the capital of France",
            "write barcode",
            "Create an image of a python function"}

\* str.strip() == "" for the sample queries
IsBlank(q) == q \in {"", "   "}

Feat(cm, cb, im, ib, wm) ==
    [code_matches |-> cm, code_boost |-> cb,
     image_matches |-> im, image_boost |-> ib, web_matches |-> wm]

QueryFeatures(q) ==
    CASE q = "Write a function to reverse a string" -> Feat(1, TRUE, 0, FALSE, 0)
      [] q = "Create an image of a red bicycle"     -> Feat(0, FALSE, 2, TRUE, 0)
      [] q = "What is the latest news today"        -> Feat(0, FALSE, 0, FALSE, 2)
      [] q = "What is the capital of France"        -> Feat(0, FALSE, 0, FALSE, 0)
      [] q = "write barcode"                        -> Feat(0, TRUE, 0, FALSE, 0)
      [] q = "Create an image of a python function" -> Feat(3, TRUE, 2, TRUE, 0)
      [] OTHER                                      -> Feat(0, FALSE, 0, FALSE, 0)

(***************************************************************************)
(* Router.                                                                 *)
(***************************************************************************)
\* 1.0 in confidence units
One == 70

NumCodePatterns == 7
NumImagePatterns == 6
NumWebPatterns == 5

\* min(matches / total_patterns * scale, 1.0); scale10 is the scale times 10
ScaledConfidence(matches, total, scale10) ==
    Min((matches * scale10 * 7) \div total, One)

\* Variant that does not cap the boosted confidence.
_analyze_code_intent_uncapped(f) ==
    LET confidence == ScaledConfidence(f.code_matches, NumCodePatterns, 20)
    IN  IF f.code_boost THEN confidence + 21 ELSE confidence

_analyze_code_intent(f) ==
    LET confidence == ScaledConfidence(f.code_matches, NumCodePatterns, 20)
    IN  IF f.code_boost THEN Min(confidence + 21, One) ELSE confidence

_analyze_image_intent(f) ==
    LET confidence == ScaledConfidence(f.image_matches, NumImagePatterns, 30)
    IN  IF f.image_boost THEN Min(confidence + 28, One) ELSE confidence

_analyze_web_search_intent(f) ==
    ScaledConfidence(f.web_matches, NumWebPatterns, 25)

_get_model_parameters(mt) ==
    LET base_params == [temperature |-> 7, max_tokens |-> 2000]
    IN  CASE mt = CODE ->
               [temperature |-> 3, max_tokens |-> 3000, top_p |-> 9]
          [] mt = IMAGE ->
               [steps |-> 30, guidance_scale |-> 75, width |-> 512,
                height |-> 512] @@ base_params
          [] mt = WEB_SEARCH ->
               [temperature |-> 6, max_tokens |-> 2000,
                use_fresh_data |-> 1, context_threshold |-> 30]
          [] OTHER -> base_params

RouteResult(mt, confidence, reasoning) ==
    [present |-> TRUE, model_type |-> mt, confidence |-> confidence,
     reasoning |-> reasoning, suggested_parameters |-> _get_model_parameters(mt)]

\* route_result = None
NoRoute == [present |-> FALSE]

\* Variant of the selection that keeps the last of several equal maxima.
LastMax(confidences) ==
    LET best == CHOOSE i \in 1..Len(confidences) :
                  /\ \A j \in 1..Len(confidences) :
                        confidences[j][2] <= confidences[i][2]
                  /\ \A j \in (i + 1)..Len(confidences) :
                        confidences[j][2] < confidences[i][2]
    IN  confidences[best]

\* confidences.sort(key=lambda x: x[1], reverse=True)[0]: the first entry, in
\* list order, whose confidence no other entry exceeds (the sort is stable).
FirstMax(confidences) ==
    LET best == CHOOSE i \in 1..Len(confidences) :
                  /\ \A j \in 1..Len(confidences) :
                        confidences[j][2] <= confidences[i][2]
                  /\ \A j \in 1..(i - 1) :
                        confidences[j][2] < confidences[i][2]
    IN  confidences[best]

\* Metadata values: None, {}, {"preferred_model": name}, and a value that is
\* true but not a mapping (a number, say), on which the `in` test raises.
MetaNone == [kind |-> "None", preferred_model |-> None]
MetaEmpty == [kind |-> "empty", preferred_model |-> None]
MetaPref(name) == [kind |-> "dict", preferred_model |-> name]
MetaMalformed == [kind |-> "malformed", preferred_model |-> None]

MetadataValues ==
    {MetaNone, MetaEmpty, MetaMalformed} \cup
    {MetaPref(n) : n \in ModelTypeValues \cup {"gpt-4"}}

\* Variant that returns the fallback confidence for an empty prompt.
EmptyPromptResultHalf ==
    RouteResult(DEFAULT, 35, "Empty prompt, using default model")

\* route_request: the decision for an empty prompt
EmptyPromptResult ==
    RouteResult(DEFAULT, One, "Empty prompt, using default model")

\* Variant that looks for a misspelt key and so never finds a preference.
ExplicitModelMisspelt(md) == FALSE

\* `metadata and "preferred_model" in metadata` and the value is a ModelType
ExplicitModel(md) ==
    md.kind = "dict" /\ md.preferred_model \in ModelTypeValues

\* Variant of the except clause that reports no confidence.
RoutingErrorZero ==
    RouteResult(DEFAULT, 0,
        "Error in routing, defaulting to general model: <exception>")

\* route_request: the except clause
RoutingError ==
    RouteResult(DEFAULT, 35,
        "Error in routing, defaulting to general model: <exception>")

\* The three family confidences of the scored path.
IntentScores(f) ==
    <<_analyze_code_intent(f), _analyze_image_intent(f),
      _analyze_web_search_intent(f)>>

\* Variant whose candidate list has no DEFAULT entry, so that a weak family
\* can be selected and the minimum confidence threshold applies.
SelectModelNoFloor(scores) ==
    LET confidences ==
          << <<CODE, scores[1],
               "Code-related keywords and patterns detected">>,
             <<IMAGE, scores[2],
               "Image generation request detected">>,
             <<WEB_SEARCH, scores[3],
               "Current information request detected">> >>
        top == FirstMax(confidences)
    IN  IF top[2] < 28 /\ top[1] # DEFAULT
        THEN RouteResult(DEFAULT, 35,
               "Low confidence in specialized model, defaulting to general model")
        ELSE RouteResult(top[1], top[2], top[3])

\* The scored path of route_request: select the best candidate and apply the
\* minimum confidence threshold.
SelectModel(scores) ==
    LET confidences ==
          << <<CODE, scores[1],
               "Code-related keywords and patterns detected">>,
             <<IMAGE, scores[2],
               "Image generation request detected">>,
             <<WEB_SEARCH, scores[3],
               "Current information request detected">>,
             <<DEFAULT, 35, "General query, using default model">> >>
        top == FirstMax(confidences)
    IN  IF top[2] < 28 /\ top[1] # DEFAULT
        THEN RouteResult(DEFAULT, 35,
               "Low confidence in specialized model, defaulting to general model")
        ELSE RouteResult(top[1], top[2], top[3])

\* route_request on a prompt given by its blankness and its pattern matches
classify(blank, f, md) ==
    IF blank THEN EmptyPromptResult
    ELSE IF md.kind = "malformed" THEN RoutingError
    ELSE IF ExplicitModel(md)
    THEN RouteResult(md.preferred_model, One, "Explicitly requested model")
    ELSE SelectModel(IntentScores(f))

route_request(prompt, md) ==
    classify(IsBlank(prompt), QueryFeatures(prompt), md)

(***************************************************************************)
(* Retrieval.                                                              *)
(***************************************************************************)
\* max_context_docs, the default of generate_contextual_response
max_context_docs == 3

\* Documents of the knowledge base with their similarity to the query.
DocPool == {[text |-> "doc A", score |-> 80],
            [text |-> "doc B", score |-> 45],
            [text |-> "", score |-> 25]}

\* What the vector store may answer to search(limit, score_threshold): at most
\* `limit` distinct documents, best first, none below the threshold.
SearchResults(limit, score_threshold) ==
    {s \in UNION {[1..n -> DocPool] : n \in 0..Min(limit, MaxHits)} :
        /\ \A i \in 1..Len(s) : s[i].score >= score_threshold
        /\ \A i \in 1..Len(s) : \A j \in 1..Len(s) :
              i < j => s[i].score > s[j].score}

\* The ways one search_relevant_context call can go.
RetrieverFaults == {"collection_not_ready", "no_embedding", "search_error"}

\* What a call returns: a list of documents, or an exception reaching the
\* caller.
Returned(docs) == [raised |-> FALSE, docs |-> docs]
Raised == [raised |-> TRUE, docs |-> <<>>]

\* Variant without the try/except: a failing search raises to the caller.
search_relevant_context_unguarded(query_text, fault, hits) ==
    IF IsBlank(query_text) THEN Returned(<<>>)
    ELSE IF fault = "search_error" THEN Raised
    ELSE IF fault \in RetrieverFaults THEN Returned(<<>>)
    ELSE Returned(hits)

\* search_relevant_context: every fault is logged and answered with the empty
\* list; nothing is raised to the caller.
search_relevant_context(query_text, fault, hits) ==
    IF IsBlank(query_text) THEN Returned(<<>>)
    ELSE IF fault \in RetrieverFaults THEN Returned(<<>>)
    ELSE Returned(hits)

(***************************************************************************)
(* Prompt formatting.  A prompt is recorded by the template that is used   *)
(* and the values substituted into it.                                     *)
(***************************************************************************)
RECURSIVE ContextLines(_, _)
ContextLines(docs, i) ==
    IF i > Len(docs) THEN <<>>
    ELSE IF docs[i].text # ""
         THEN <<[n |-> i, score |-> docs[i].score, text |-> docs[i].text]>>
                \o ContextLines(docs, i + 1)
         ELSE ContextLines(docs, i + 1)

_format_rag_prompt(q, docs, mt) ==
    IF Len(docs) = 0
    THEN [template |-> IF mt = CODE THEN "code_direct" ELSE "qa_direct",
          query |-> q, context_text |-> <<>>]
    ELSE [template |-> IF mt = CODE THEN "code_context" ELSE "qa_context",
          query |-> q, context_text |-> ContextLines(docs, 1)]

NoPrompt == [template |-> None, query |-> None, context_text |-> <<>>]

\* "\n\n".join(doc.get("text", "") for doc in context_docs), kept as the list
\* of joined pieces
JoinTexts(docs) == [i \in 1..Len(docs) |-> docs[i].text]

\* the joined string is empty
IsEmptyJoin(texts) == Len(texts) = 0 \/ (Len(texts) = 1 /\ texts[1] = "")

(***************************************************************************)
(* Outcomes.                                                               *)
(***************************************************************************)
NoMetadata == [present |-> FALSE]

\* The dictionaries returned on failure: no response_type and no metadata.
Failure(err, q, ctx) ==
    [returned |-> TRUE, success |-> FALSE, error |-> err, query |-> q,
     context |-> ctx, response |-> None, response_type |-> None,
     metadata |-> NoMetadata]

Success(q, ctx, resp, rtype, used) ==
    [returned |-> TRUE, success |-> TRUE, error |-> None, query |-> q,
     context |-> ctx, response |-> resp, response_type |-> rtype,
     metadata |-> [present |-> TRUE, model_used |-> used,
                   routing |-> route_result]]

\* generate_contextual_response: the outer except
InternalError(q) == Failure("Internal error: <exception>", q, <<>>)

\* Variant that does not test the adapter's answer.
ImageOutcomeUnchecked(q, image_result) ==
    IF image_result = Raise
    THEN Failure("Image generation error: <exception>", q, <<>>)
    ELSE Success(q, <<>>, image_result, "image", "stable-diffusion")

\* _handle_image_generation: the dictionary built from the adapter's answer
ImageOutcome(q, image_result) ==
    IF image_result = Raise
    THEN Failure("Image generation error: <exception>", q, <<>>)
    ELSE IF image_result # None
    THEN Success(q, <<>>, image_result, "image", "stable-diffusion")
    ELSE Failure("Failed to generate image", q, <<>>)

\* Variant that tests `is not None`, so that the empty string counts as code.
IsTruthyNotNone(code_response) == code_response # None

\* `if code_response:` -- None and the empty string are both false
IsTruthy(code_response) == code_response # None /\ code_response # ""

\* Variant that keeps the code model for the fallback.
FallbackCallCodeModel(q, docs) ==
    [query |-> q, context_docs |-> docs, specific_model |-> CODE]

\* Variant that drops the retrieved context on fallback.
FallbackCallNoContext(q, docs) ==
    [query |-> q, context_docs |-> <<>>, specific_model |-> None]

\* The arguments of the fallback call
\* _handle_default_generation(query, context_docs, route_result, None)
FallbackCall(q, docs) ==
    [query |-> q, context_docs |-> docs, specific_model |-> None]

\* Variant whose dictionary has no error message.
DefaultExceptNoMessage(q, docs) == Failure("", q, docs)

\* _handle_default_generation: the except clause
DefaultExcept(q, docs) == Failure("Generation error: <exception>", q, docs)

\* Variant that reports an empty context.
UnavailableNoContext(q, docs) ==
    Failure("LLM service (Ollama) not available", q, <<>>)

\* _handle_default_generation: `if not llm_available`
Unavailable(q, docs) ==
    Failure("LLM service (Ollama) not available", q, docs)

\* OllamaClient.generate_response: model or self.default_model
ModelOrDefault(m) == IF m # None /\ m # "" THEN m ELSE default_model

\* Variant that always reports the default model.
ModelUsedDefault(m) == default_model

\* metadata["model_used"]: specific_model or self.llm_client.default_model
ModelUsed(m) == IF m # None /\ m # "" THEN m ELSE default_model

\* Variant without the `llm_response is None` test.
TextOutcomeUnchecked(q, docs, llm_response, m) ==
    Success(q, docs, llm_response, "text", ModelUsed(m))

\* _handle_default_generation: the dictionary built from the LLM's answer
TextOutcome(q, docs, llm_response, m) ==
    IF llm_response = None
    THEN Failure("Failed to generate response from LLM", q, docs)
    ELSE Success(q, docs, llm_response, "text", ModelUsed(m))

NoOutcome ==
    [returned |-> FALSE, success |-> FALSE, error |-> None, query |-> None,
     context |-> <<>>, response |-> None, response_type |-> None,
     metadata |-> NoMetadata]

(***************************************************************************)
(* Inputs and collaborator answers.                                        *)
(***************************************************************************)
ModelValues == {None, ""} \cup ModelTypeValues \cup {"llama3"}

ThresholdValues == {0, 20, 30, 50, 90}

ImageAnswers == {"<image payload>", None, Raise}
CodeAnswers == {"def reverse(s): return s[::-1]", "", None, Raise}
ProbeAnswers == {"True", "False", Raise}
TextAnswers == {"generated text", None, Raise}

\* One entry of the call log: the operation, its arguments, its answer.
Call(op, args, result) == [op |-> op, args |-> args, result |-> result]

\* Pattern matches a prompt can have.  A prompt that matches the image boost
\* pattern also matches the first image pattern, which lists the same verbs
\* and nouns.
FeatureSpace ==
    {f \in [code_matches : 0..NumCodePatterns, code_boost : BOOLEAN,
            image_matches : 0..NumImagePatterns, image_boost : BOOLEAN,
            web_matches : 0..NumWebPatterns] :
        f.image_boost => f.image_matches >= 1}

NoFeatures == Feat(0, FALSE, 0, FALSE, 0)

\* no direct call of route_request is recorded
NotRouted ==
    [called |-> FALSE, blank |-> FALSE, features |-> NoFeatures,
     metadata |-> MetaNone, scores |-> <<>>, result |-> NoRoute]

(***************************************************************************)
(* The /generate endpoint: request and response records.                   *)
(***************************************************************************)
\* context_threshold: None
NoThreshold == 0 - 1

NoRequest ==
    [prompt |-> None, model |-> None, context_threshold |-> NoThreshold,
     routing_metadata |-> MetaNone]

NoBody ==
    [success |-> FALSE, query |-> None, context |-> <<>>, response |-> None,
     response_type |-> None, metadata |-> NoMetadata, routing_info |-> NoRoute,
     error |-> None, detail |-> None]

HttpIdle == [status |-> "idle", request |-> NoRequest, body |-> NoBody]

(***************************************************************************)
(* The /route endpoint.                                                    *)
(***************************************************************************)
RouteApiIdle ==
    [status |-> "idle", blank |-> FALSE, features |-> NoFeatures,
     metadata |-> MetaNone, success |-> FALSE, routing |-> NoRoute,
     detail |-> None]

(***************************************************************************)
(* Two requests in progress at the same time.                              *)
(***************************************************************************)
Requests == {1, 2}

NoAnswers ==
    [image |-> None, docs |-> <<>>, code |-> None, probe |-> None,
     text |-> None]

\* The locals of one request; `answers` keeps what the collaborators answered
\* to this request and `fell_back` whether the default handler was entered
\* from the code handler.
IdleRequest ==
    [pc |-> "idle", query |-> None, model |-> None, route_result |-> NoRoute,
     model_type |-> DEFAULT, context_docs |-> <<>>, specific_model |-> None,
     formatted_prompt |-> NoPrompt, outcome |-> NoOutcome,
     answers |-> NoAnswers, fell_back |-> FALSE]

(***************************************************************************)
(* The vector collection.                                                  *)
(***************************************************************************)
NoPoints == [i \in {} |-> 0]

\* `points` is the collection (point id -> vector and payload), `documents`
\* the batch of the last call, `written` the points it sent to upsert and
\* `result` the dictionary add_knowledge returned.
EmptyKnowledgeBase ==
    [points |-> NoPoints, called |-> FALSE, documents |-> <<>>,
     written |-> NoPoints, result |-> [success |-> FALSE, text |-> None]]

(***************************************************************************)
(* scrape_multiple_urls                                                    *)
(***************************************************************************)
\* `i` counts the URLs the loop has taken so far.
ScrapeIdle ==
    [pc |-> "idle", urls |-> <<>>, i |-> 0, results |-> <<>>,
     total_chunks |-> 0, successful_urls |-> 0,
     returned |-> [present |-> FALSE]]

(***************************************************************************)
(* Initial state: no request in progress.                                  *)
(***************************************************************************)
Init ==
    /\ pc = "idle"
    /\ query = None
    /\ model = None
    /\ metadata = MetaNone
    /\ context_score_threshold = 50
    /\ route_result = NoRoute
    /\ model_type = DEFAULT
    /\ context_docs = <<>>
    /\ specific_model = None
    /\ formatted_prompt = NoPrompt
    /\ outcome = NoOutcome
    /\ calls = <<>>
    /\ routed = NotRouted
    /\ http = HttpIdle
    /\ api_route = RouteApiIdle
    /\ inflight = [r \in Requests |-> IdleRequest]
    /\ kb = EmptyKnowledgeBase
    /\ scrape = ScrapeIdle

(***************************************************************************)
(* generate_contextual_response, steps 1-3: validate, route, and branch.   *)
(***************************************************************************)
\* Variant without strip(): `if not query`
EmptyQueryNoStrip(q) == q = ""

\* `if not query.strip()`
EmptyQuery(q) == IsBlank(q)

\* Variant that compares with the enum member names and so matches nothing.
RequestedModelTypeByName(m) == DEFAULT

\* the backend whose value equals the requested model name, else DEFAULT
RequestedModelType(m) == IF m \in ModelTypeValues THEN m ELSE DEFAULT

Validate(q, m, md, t) ==
    /\ pc = "idle"
    /\ query' = q
    /\ model' = m
    /\ metadata' = md
    /\ context_score_threshold' = t
    /\ IF EmptyQuery(q)
       THEN /\ outcome' = Failure("Empty query provided", q, <<>>)
            /\ pc' = "done"
            /\ UNCHANGED <<route_result, model_type, calls>>
       ELSE /\ IF m # None /\ m # ""
               THEN /\ route_result' = NoRoute
                    /\ model_type' = RequestedModelType(m)
                    /\ calls' = calls
               ELSE /\ route_result' = route_request(q, md)
                    /\ model_type' = route_result'.model_type
                    /\ calls' = Append(calls, Call("route_request",
                                   [prompt |-> q, metadata |-> md],
                                   route_result'))
            /\ pc' = IF model_type' = IMAGE THEN "image" ELSE "retrieve"
            /\ outcome' = outcome
    /\ UNCHANGED <<context_docs, specific_model, formatted_prompt, routed, extra>>

(***************************************************************************)
(* _handle_image_generation                                                *)
(***************************************************************************)
_handle_image_generation(image_result) ==
    /\ pc = "image"
    /\ LET params == IF route_result.present
                     THEN route_result.suggested_parameters
                     ELSE [x \in {} |-> 0]
       IN  calls' = Append(calls, Call("generate_image",
                       [prompt |-> query,
                        width |-> Get(params, "width", 512),
                        height |-> Get(params, "height", 512),
                        steps |-> Get(params, "steps", 30),
                        guidance_scale |-> Get(params, "guidance_scale", 75)],
                       image_result))
    /\ outcome' = ImageOutcome(query, image_result)
    /\ pc' = "done"
    /\ UNCHANGED <<query, model, metadata, context_score_threshold,
                   route_result, model_type, context_docs, specific_model,
                   formatted_prompt, routed, extra>>

(***************************************************************************)
(* generate_contextual_response, steps 4-5: retrieve context and hand the  *)
(* request to the code or the default handler.                             *)
(***************************************************************************)
\* Variant that leaves the web-enhanced backend out.
UseRagNoWeb(mt) == mt \in {DEFAULT, CODE}

\* use_rag
UseRag(mt) == mt \in {DEFAULT, CODE, WEB_SEARCH}

\* Variant without the cap for code queries.
EffectiveThresholdUncapped(mt, requested) == requested

\* the threshold handed to the retriever
EffectiveThreshold(mt, requested) ==
    IF mt = CODE THEN Min(requested, 30) ELSE requested

Retrieve(fault, hits) ==
    /\ pc = "retrieve"
    /\ LET threshold == EffectiveThreshold(model_type, context_score_threshold)
           answer == search_relevant_context(query, fault, hits)
       IN  /\ hits \in SearchResults(max_context_docs, threshold)
           /\ IF ~UseRag(model_type)
              THEN /\ context_docs' = <<>>
                   /\ calls' = calls
                   /\ outcome' = outcome
                   /\ pc' = IF model_type = CODE THEN "code" ELSE "default"
              ELSE /\ calls' = Append(calls, Call("search_relevant_context",
                                 [query_text |-> query,
                                  top_k |-> max_context_docs,
                                  score_threshold |-> threshold,
                                  fault |-> fault],
                                 answer))
                   /\ IF answer.raised
                      THEN /\ context_docs' = <<>>
                           /\ outcome' = InternalError(query)
                           /\ pc' = "done"
                      ELSE /\ context_docs' = answer.docs
                           /\ outcome' = outcome
                           /\ pc' = IF model_type = CODE THEN "code"
                                    ELSE "default"
    /\ specific_model' = model
    /\ UNCHANGED <<query, model, metadata, context_score_threshold,
                   route_result, model_type, formatted_prompt, routed, extra>>

(***************************************************************************)
(* _handle_code_generation.  On failure the default handler is entered     *)
(* with the arguments of FallbackCall; the handler's parameters            *)
(* context_docs and specific_model are the variables of the same name.     *)
(***************************************************************************)
_handle_code_generation(code_response) ==
    /\ pc = "code"
    /\ LET context_text == JoinTexts(context_docs)
       IN  calls' = calls \o
             << Call("_handle_code_generation",
                     [query |-> query, context_docs |-> context_docs], None),
                Call("generate_code_response",
                     [prompt |-> query,
                      context |-> IF IsEmptyJoin(context_text)
                                  THEN <<None>> ELSE context_text,
                      temperature |->
                        IF route_result.present
                        THEN Get(route_result.suggested_parameters,
                                 "temperature", 3)
                        ELSE 3],
                     code_response) >>
    /\ IF code_response # Raise /\ IsTruthy(code_response)
       THEN /\ outcome' = Success(query, context_docs, code_response, "code",
                                  "qwen3:coder")
            /\ pc' = "done"
            /\ UNCHANGED <<context_docs, specific_model>>
       ELSE /\ context_docs' = FallbackCall(query, context_docs).context_docs
            /\ specific_model' =
                 FallbackCall(query, context_docs).specific_model
            /\ outcome' = outcome
            /\ pc' = "default"
    /\ UNCHANGED <<query, model, metadata, context_score_threshold,
                   route_result, model_type, formatted_prompt, routed, extra>>

(***************************************************************************)
(* _handle_default_generation, up to the availability check.               *)
(***************************************************************************)
\* Variant that probes the LLM before the prompt is formatted.
DefaultPrologueProbeFirst(q, docs, m, mt, llm_available) ==
    << Call("_handle_default_generation",
            [query |-> q, context_docs |-> docs, specific_model |-> m], None),
       Call("is_available", <<>>, llm_available),
       Call("_format_rag_prompt",
            [query |-> q, context_docs |-> docs, model_type |-> mt],
            _format_rag_prompt(q, docs, mt)) >>

\* The first statements of the handler, in program order: entry, prompt
\* formatting, availability probe.
DefaultPrologue(q, docs, m, mt, llm_available) ==
    << Call("_handle_default_generation",
            [query |-> q, context_docs |-> docs, specific_model |-> m], None),
       Call("_format_rag_prompt",
            [query |-> q, context_docs |-> docs, model_type |-> mt],
            _format_rag_prompt(q, docs, mt)),
       Call("is_available", <<>>, llm_available) >>

\* route_result.model_type if route_result else ModelType.DEFAULT
PromptModelType(rr) == IF rr.present THEN rr.model_type ELSE DEFAULT

CheckAvailability(llm_available) ==
    /\ pc = "default"
    /\ formatted_prompt' = _format_rag_prompt(query, context_docs,
                                              PromptModelType(route_result))
    /\ calls' = calls \o DefaultPrologue(query, context_docs, specific_model,
                                         PromptModelType(route_result),
                                         llm_available)
    /\ CASE llm_available = Raise ->
              /\ outcome' = DefaultExcept(query, context_docs)
              /\ pc' = "done"
         [] llm_available = "False" ->
              /\ outcome' = Unavailable(query, context_docs)
              /\ pc' = "done"
         [] OTHER ->
              /\ outcome' = outcome
              /\ pc' = "generate"
    /\ UNCHANGED <<query, model, metadata, context_score_threshold,
                   route_result, model_type, context_docs, specific_model, routed, extra>>

(***************************************************************************)
(* _handle_default_generation, from the text generation on.                *)
(***************************************************************************)
GenerateText(llm_response) ==
    /\ pc = "generate"
    /\ calls' = Append(calls, Call("generate_response",
                   [prompt |-> formatted_prompt, model |-> specific_model,
                    model_name |-> ModelOrDefault(specific_model)],
                   llm_response))
    /\ outcome' =
         IF llm_response = Raise
         THEN DefaultExcept(query, context_docs)
         ELSE TextOutcome(query, context_docs, llm_response, specific_model)
    /\ pc' = "done"
    /\ UNCHANGED <<query, model, metadata, context_score_threshold,
                   route_result, model_type, context_docs, specific_model,
                   formatted_prompt, routed, extra>>

(***************************************************************************)
(* The outcome has been returned to the caller; the next request starts    *)
(* from fresh locals.                                                      *)
(***************************************************************************)
Return ==
    /\ pc = "done"
    /\ pc' = "idle"
    /\ query' = None
    /\ model' = None
    /\ metadata' = MetaNone
    /\ context_score_threshold' = 50
    /\ route_result' = NoRoute
    /\ model_type' = DEFAULT
    /\ context_docs' = <<>>
    /\ specific_model' = None
    /\ formatted_prompt' = NoPrompt
    /\ outcome' = NoOutcome
    /\ calls' = <<>>
    /\ routed' = routed
    /\ UNCHANGED extra

Next ==
    \/ \E q \in Queries, m \in ModelValues, md \in MetadataValues,
          t \in ThresholdValues : Validate(q, m, md, t)
    \/ \E r \in ImageAnswers : _handle_image_generation(r)
    \/ \E fault \in RetrieverFaults \cup {"none"},
          hits \in SearchResults(max_context_docs, 0) : Retrieve(fault, hits)
    \/ \E r \in CodeAnswers : _handle_code_generation(r)
    \/ \E a \in ProbeAnswers : CheckAvailability(a)
    \/ \E r \in TextAnswers : GenerateText(r)
    \/ Return

Spec == Init /\ [][Next]_vars

(***************************************************************************)
(* route_request called on its own.                                        *)
(***************************************************************************)
RouteRequest(blank, f, md) ==
    /\ ~routed.called
    /\ blank => f = NoFeatures
    /\ routed' = [called |-> TRUE, blank |-> blank, features |-> f,
                  metadata |-> md,
                  scores |-> IF blank \/ md.kind = "malformed"
                                      \/ ExplicitModel(md)
                             THEN <<>> ELSE IntentScores(f),
                  result |-> classify(blank, f, md)]
    /\ UNCHANGED <<genvars, extra>>

RouteReturn ==
    /\ routed.called
    /\ routed' = NotRouted
    /\ UNCHANGED <<genvars, extra>>

NextRoute ==
    \/ \E blank \in BOOLEAN, f \in FeatureSpace, md \in MetadataValues :
          RouteRequest(blank, f, md)
    \/ RouteReturn

SpecRoute == Init /\ [][NextRoute]_vars

(***************************************************************************)
(* The /generate endpoint (src/backend/main.py).  A request with a blank   *)
(* prompt is refused with status 400; any other request is handed to       *)
(* generate_contextual_response and its result is shaped into the response *)
(* body.                                                                   *)
(***************************************************************************)
RequestThresholds == ThresholdValues \cup {NoThreshold}

\* context_score_threshold=request.context_threshold or 0.5
ThresholdArgument(t) == IF t = NoThreshold \/ t = 0 THEN 50 ELSE t

\* Variant that hands the result's own response_type on.
FailureBodyPassThrough(req, result) ==
    [success |-> FALSE, query |-> req.prompt, context |-> result.context,
     response |-> None, response_type |-> result.response_type,
     metadata |-> NoMetadata, routing_info |-> NoRoute,
     error |-> result.error, detail |-> None]

\* the body built when result["success"] is false
FailureBody(req, result) ==
    [success |-> FALSE, query |-> req.prompt, context |-> result.context,
     response |-> None, response_type |-> "error",
     metadata |-> NoMetadata, routing_info |-> NoRoute,
     error |-> result.error, detail |-> None]

\* the body built from a successful result
SuccessBody(result) ==
    [success |-> TRUE, query |-> result.query, context |-> result.context,
     response |-> result.response, response_type |-> result.response_type,
     metadata |-> result.metadata,
     routing_info |-> result.metadata.routing,
     error |-> None, detail |-> None]

GenerateBody(req, result) ==
    IF ~result.success THEN FailureBody(req, result) ELSE SuccessBody(result)

\* The request arrives; `if not request.prompt.strip()` raises HTTP 400.
Generate(p, m, t, md) ==
    /\ http.status = "idle"
    /\ pc = "idle"
    /\ LET req == [prompt |-> p, model |-> m, context_threshold |-> t,
                   routing_metadata |-> md]
       IN  http' = IF IsBlank(p)
                   THEN [status |-> "400", request |-> req,
                         body |-> [NoBody EXCEPT
                                     !.detail = "Prompt cannot be empty"]]
                   ELSE [status |-> "pending", request |-> req,
                         body |-> NoBody]
    /\ UNCHANGED <<genvars, routed, api_route, inflight, kb, scrape>>

\* await orchestrator.generate_contextual_response(...)
GenerateDispatch ==
    /\ http.status = "pending"
    /\ Validate(http.request.prompt, http.request.model,
                http.request.routing_metadata,
                ThresholdArgument(http.request.context_threshold))

\* The result is shaped into the GenerateResponse.
GenerateRespond ==
    /\ http.status = "pending"
    /\ pc = "done"
    /\ http' = [http EXCEPT !.status = "200",
                            !.body = GenerateBody(http.request, outcome)]
    /\ UNCHANGED <<genvars, routed, api_route, inflight, kb, scrape>>

\* The response has been sent.
GenerateClose ==
    /\ http.status \in {"200", "400"}
    /\ http' = HttpIdle
    /\ pc' = "idle"
    /\ query' = None
    /\ model' = None
    /\ metadata' = MetaNone
    /\ context_score_threshold' = 50
    /\ route_result' = NoRoute
    /\ model_type' = DEFAULT
    /\ context_docs' = <<>>
    /\ specific_model' = None
    /\ formatted_prompt' = NoPrompt
    /\ outcome' = NoOutcome
    /\ calls' = <<>>
    /\ UNCHANGED <<routed, api_route, inflight, kb, scrape>>

NextGenerate ==
    \/ \E p \in Queries, m \in ModelValues, t \in RequestThresholds,
          md \in MetadataValues : Generate(p, m, t, md)
    \/ GenerateDispatch
    \/ \E r \in ImageAnswers : _handle_image_generation(r)
    \/ \E fault \in RetrieverFaults \cup {"none"},
          hits \in SearchResults(max_context_docs, 0) : Retrieve(fault, hits)
    \/ \E r \in CodeAnswers : _handle_code_generation(r)
    \/ \E a \in ProbeAnswers : CheckAvailability(a)
    \/ \E r \in TextAnswers : GenerateText(r)
    \/ GenerateRespond
    \/ GenerateClose

SpecGenerate == Init /\ [][NextGenerate]_vars

(***************************************************************************)
(* The /route endpoint (src/backend/main.py).  The whole handler body is   *)
(* inside `try: ... except Exception`, and HTTPException is an Exception,  *)
(* so the HTTPException(400) raised for a blank query is caught by the     *)
(* handler's own except clause and replaced by HTTPException(500).         *)
(***************************************************************************)
\* the HTTP error that leaves the handler when HTTPException(status, detail)
\* is raised inside the try block
RaisedInTry(status, detail) ==
    [status |-> "500", detail |-> "Internal server error"]

RouteQuery(blank, f, md) ==
    /\ api_route.status = "idle"
    /\ blank => f = NoFeatures
    /\ api_route' =
         IF blank
         THEN LET err == RaisedInTry("400", "Query cannot be empty")
              IN  [status |-> err.status, blank |-> blank, features |-> f,
                   metadata |-> md, success |-> FALSE, routing |-> NoRoute,
                   detail |-> err.detail]
         ELSE [status |-> "200", blank |-> blank, features |-> f,
               metadata |-> md, success |-> TRUE,
               routing |-> classify(blank, f, md), detail |-> None]
    /\ UNCHANGED <<genvars, routed, http, inflight, kb, scrape>>

RouteQueryClose ==
    /\ api_route.status # "idle"
    /\ api_route' = RouteApiIdle
    /\ UNCHANGED <<genvars, routed, http, inflight, kb, scrape>>

NextRouteApi ==
    \/ \E blank \in BOOLEAN, f \in FeatureSpace, md \in MetadataValues :
          RouteQuery(blank, f, md)
    \/ RouteQueryClose

SpecRouteApi == Init /\ [][NextRouteApi]_vars

(***************************************************************************)
(* add_knowledge: AuraxOrchestrator.add_knowledge calls                    *)
(* AuraxRetriever.add_documents_to_knowledge_base, which embeds the texts  *)
(* and calls AuraxQdrantClient.add_documents.                              *)
(***************************************************************************)
DocTexts == {"", "alpha", "beta"}

Batches == UNION {[1..n -> [text : DocTexts]] : n \in 0..MaxBatch}

\* the vector the sentence encoder computes for a text
Embedding(text) == [embedding_of |-> text]

\* the loop over texts: one embedding per text that is not blank, in order;
\* blank texts are skipped
ValidEmbeddings(documents) ==
    LET texts == [i \in 1..Len(documents) |-> documents[i].text]
        kept == SelectSeq(texts, LAMBDA t : ~IsBlank(t))
    IN  [i \in 1..Len(kept) |-> Embedding(kept[i])]

\* [PointStruct(id=i, vector=vector, payload=doc)
\*    for i, (doc, vector) in enumerate(zip(documents, vectors))]
PointStructs(documents, vectors) ==
    [i \in 0..(Min(Len(documents), Len(vectors)) - 1) |->
        [vector |-> vectors[i + 1], payload |-> documents[i + 1]]]

\* client.upsert: a point replaces the stored point of the same id
Upsert(points, new) ==
    [i \in DOMAIN points \cup DOMAIN new |->
        IF i \in DOMAIN new THEN new[i] ELSE points[i]]

\* AuraxQdrantClient.add_documents: the new collection and the value returned
add_documents(points, documents, vectors, upsert_ok) ==
    IF upsert_ok
    THEN [points |-> Upsert(points, PointStructs(documents, vectors)),
          success |-> TRUE]
    ELSE [points |-> points, success |-> FALSE]

\* AuraxRetriever.add_documents_to_knowledge_base
add_documents_to_knowledge_base(points, documents, ready, upsert_ok) ==
    LET embeddings == ValidEmbeddings(documents)
    IN  IF Len(documents) = 0 THEN [points |-> points, success |-> FALSE]
        ELSE IF Len(embeddings) = 0
        THEN [points |-> points, success |-> FALSE]
        ELSE IF ~ready
        THEN [points |-> points, success |-> FALSE]
        ELSE add_documents(points, documents, embeddings, upsert_ok)

\* AuraxOrchestrator.add_knowledge
add_knowledge(documents, collection_ready, upsert_ok) ==
    /\ LET answer == add_documents_to_knowledge_base(kb.points, documents,
                         collection_ready, upsert_ok)
           written == IF answer.success
                      THEN PointStructs(documents, ValidEmbeddings(documents))
                      ELSE NoPoints
       IN  kb' = [points |-> answer.points,
                  called |-> TRUE,
                  documents |-> documents,
                  written |-> written,
                  result |->
                    IF answer.success
                    THEN [success |-> TRUE,
                          text |-> "Successfully added documents to knowledge base"]
                    ELSE [success |-> FALSE,
                          text |-> "Failed to add documents to knowledge base"]]
    /\ UNCHANGED <<genvars, routed, http, api_route, inflight, scrape>>

NextKnowledge ==
    \E documents \in Batches, collection_ready \in BOOLEAN,
       upsert_ok \in BOOLEAN :
          add_knowledge(documents, collection_ready, upsert_ok)

SpecKnowledge == Init /\ [][NextKnowledge]_vars

(***************************************************************************)
(* RAGUpdater.scrape_multiple_urls: one step per URL of the batch.  The    *)
(* call of scrape_and_update_knowledge_base for a URL answers with a       *)
(* success dictionary, a failure dictionary, or an exception.              *)
(***************************************************************************)
Urls == {"https://a.example", "https://b.example"}

UrlBatches == UNION {[1..n -> Urls] : n \in 0..MaxUrls}

\* what scrape_and_update_knowledge_base can answer for one URL
ScrapeSucceeded(url, chunks) ==
    [success |-> TRUE, url |-> url, chunks_added_to_rag |-> chunks,
     error |-> None]

ScrapeFailed(url, err) ==
    [success |-> FALSE, url |-> url, chunks_added_to_rag |-> 0, error |-> err]

ScrapeAnswers(url) ==
    {ScrapeSucceeded(url, n) : n \in 1..2}
      \cup {ScrapeFailed(url, "Scraping failed: <error>")}

\* Variant whose handler only logs the exception.
AfterExceptionLogOnly(results, url) == results

\* the inner except: a failure entry for the URL is appended
AfterException(results, url) ==
    Append(results, ScrapeFailed(url, "<exception>"))

ScrapeStart(urls) ==
    /\ scrape.pc = "idle"
    /\ scrape' = [ScrapeIdle EXCEPT !.pc = "loop", !.urls = urls]
    /\ UNCHANGED <<genvars, routed, http, api_route, inflight, kb>>

\* one iteration of `for url in urls` whose call returns `result`
ScrapeUrl(result) ==
    /\ scrape.pc = "loop"
    /\ scrape.i < Len(scrape.urls)
    /\ result.url = scrape.urls[scrape.i + 1]
    /\ scrape' = [scrape EXCEPT
                    !.i = @ + 1,
                    !.results = Append(@, result),
                    !.successful_urls =
                       IF result.success THEN @ + 1 ELSE @,
                    !.total_chunks =
                       IF result.success THEN @ + result.chunks_added_to_rag
                       ELSE @]
    /\ UNCHANGED <<genvars, routed, http, api_route, inflight, kb>>

\* one iteration whose call raises
ScrapeUrlRaises ==
    /\ scrape.pc = "loop"
    /\ scrape.i < Len(scrape.urls)
    /\ scrape' = [scrape EXCEPT
                    !.i = @ + 1,
                    !.results =
                       AfterException(@, scrape.urls[scrape.i + 1])]
    /\ UNCHANGED <<genvars, routed, http, api_route, inflight, kb>>

\* the dictionary returned after the loop
ScrapeFinish ==
    /\ scrape.pc = "loop"
    /\ scrape.i = Len(scrape.urls)
    /\ scrape' = [scrape EXCEPT
                    !.pc = "returned",
                    !.returned =
                       [present |-> TRUE, success |-> TRUE,
                        total_urls |-> Len(scrape.urls),
                        successful_urls |-> scrape.successful_urls,
                        failed_urls |->
                           Len(scrape.urls) - scrape.successful_urls,
                        total_chunks_added |-> scrape.total_chunks,
                        results |-> scrape.results]]
    /\ UNCHANGED <<genvars, routed, http, api_route, inflight, kb>>

ScrapeReturn ==
    /\ scrape.pc = "returned"
    /\ scrape' = ScrapeIdle
    /\ UNCHANGED <<genvars, routed, http, api_route, inflight, kb>>

NextScrape ==
    \/ \E urls \in UrlBatches : ScrapeStart(urls)
    \/ \E url \in Urls : \E result \in ScrapeAnswers(url) : ScrapeUrl(result)
    \/ ScrapeUrlRaises
    \/ ScrapeFinish
    \/ ScrapeReturn

SpecScrape == Init /\ [][NextScrape]_vars

(***************************************************************************)
(* Two generate_contextual_response requests in progress at once.  Each is *)
(* a coroutine with its own parameters and locals; control passes from one *)
(* to the other at the awaits on the collaborators, which are the steps    *)
(* below.  The orchestrator, the router and the formatter assign no        *)
(* attribute after construction, so the requests share nothing but         *)
(* constants.  Requests use the default threshold and no metadata.         *)
(***************************************************************************)
ConcurrentQueries ==
    {"", "Write a function to reverse a string",
     "Create an image of a red bicycle", "What is the capital of France"}

ConcurrentModels == {None, CODE}

OtherRequest(r) == CHOOSE o \in Requests : o # r

\* Variant in which the locals are attributes of the shared orchestrator
\* object, so that a step reads what the other request wrote.
FrameShared(r, other) == other

\* The frame a step of request r reads its locals from: its own.
Frame(r, other) == r

Locals(r) == inflight[Frame(r, OtherRequest(r))]

\* "routing": route_result.__dict__ if route_result else None, with the
\* route_result the handler was given
WithRouting(result, rr) ==
    IF result.metadata.present
    THEN [result EXCEPT !.metadata.routing = rr]
    ELSE result

ConcurrentStart(r, q, m) ==
    /\ inflight[r].pc = "idle"
    /\ LET explicit == m # None /\ m # ""
           rr == IF explicit THEN NoRoute ELSE route_request(q, MetaNone)
           mt == IF explicit THEN RequestedModelType(m) ELSE rr.model_type
       IN  inflight' = [inflight EXCEPT ![r] =
             IF EmptyQuery(q)
             THEN [IdleRequest EXCEPT
                     !.pc = "done", !.query = q, !.model = m,
                     !.outcome = Failure("Empty query provided", q, <<>>)]
             ELSE [IdleRequest EXCEPT
                     !.pc = IF mt = IMAGE THEN "image" ELSE "retrieve",
                     !.query = q, !.model = m,
                     !.route_result = rr, !.model_type = mt]]
    /\ UNCHANGED <<genvars, routed, http, api_route, kb, scrape>>

ConcurrentImage(r, image_result) ==
    /\ inflight[r].pc = "image"
    /\ inflight' = [inflight EXCEPT ![r] =
         [@ EXCEPT !.pc = "done",
                   !.answers.image = image_result,
                   !.outcome = WithRouting(
                       ImageOutcome(Locals(r).query, image_result),
                       Locals(r).route_result)]]
    /\ UNCHANGED <<genvars, routed, http, api_route, kb, scrape>>

ConcurrentRetrieve(r, hits) ==
    /\ inflight[r].pc = "retrieve"
    /\ LET me == Locals(r)
           threshold == EffectiveThreshold(me.model_type, 50)
           answer == search_relevant_context(me.query, "none", hits)
       IN  /\ hits \in SearchResults(max_context_docs, threshold)
           /\ inflight' = [inflight EXCEPT ![r] =
                [@ EXCEPT !.pc = IF me.model_type = CODE THEN "code"
                                 ELSE "default",
                          !.answers.docs = hits,
                          !.context_docs = answer.docs,
                          !.specific_model = me.model]]
    /\ UNCHANGED <<genvars, routed, http, api_route, kb, scrape>>

ConcurrentCode(r, code_response) ==
    /\ inflight[r].pc = "code"
    /\ LET me == Locals(r)
       IN  inflight' = [inflight EXCEPT ![r] =
             IF code_response # Raise /\ IsTruthy(code_response)
             THEN [@ EXCEPT !.pc = "done",
                            !.answers.code = code_response,
                            !.outcome = WithRouting(
                                Success(me.query, me.context_docs,
                                        code_response, "code", "qwen3:coder"),
                                me.route_result)]
             ELSE [@ EXCEPT !.pc = "default",
                            !.answers.code = code_response,
                            !.fell_back = TRUE,
                            !.context_docs =
                               FallbackCall(me.query, me.context_docs)
                                  .context_docs,
                            !.specific_model =
                               FallbackCall(me.query, me.context_docs)
                                  .specific_model]]
    /\ UNCHANGED <<genvars, routed, http, api_route, kb, scrape>>

ConcurrentProbe(r, llm_available) ==
    /\ inflight[r].pc = "default"
    /\ LET me == Locals(r)
       IN  inflight' = [inflight EXCEPT ![r] =
             [@ EXCEPT !.answers.probe = llm_available,
                       !.formatted_prompt =
                          _format_rag_prompt(me.query, me.context_docs,
                              PromptModelType(me.route_result)),
                       !.pc = IF llm_available \in {"False", Raise}
                              THEN "done" ELSE "generate",
                       !.outcome =
                          IF llm_available = Raise
                          THEN DefaultExcept(me.query, me.context_docs)
                          ELSE IF llm_available = "False"
                          THEN Unavailable(me.query, me.context_docs)
                          ELSE @]]
    /\ UNCHANGED <<genvars, routed, http, api_route, kb, scrape>>

ConcurrentText(r, llm_response) ==
    /\ inflight[r].pc = "generate"
    /\ LET me == Locals(r)
       IN  inflight' = [inflight EXCEPT ![r] =
             [@ EXCEPT !.pc = "done",
                       !.answers.text = llm_response,
                       !.outcome =
                          IF llm_response = Raise
                          THEN DefaultExcept(me.query, me.context_docs)
                          ELSE WithRouting(
                                 TextOutcome(me.query, me.context_docs,
                                             llm_response, me.specific_model),
                                 me.route_result)]]
    /\ UNCHANGED <<genvars, routed, http, api_route, kb, scrape>>

ConcurrentReturn(r) ==
    /\ inflight[r].pc = "done"
    /\ inflight' = [inflight EXCEPT ![r] = IdleRequest]
    /\ UNCHANGED <<genvars, routed, http, api_route, kb, scrape>>

NextConcurrent ==
    \E r \in Requests :
       \/ \E q \in ConcurrentQueries, m \in ConcurrentModels :
             ConcurrentStart(r, q, m)
       \/ \E a \in ImageAnswers : ConcurrentImage(r, a)
       \/ \E hits \in SearchResults(max_context_docs, 0) :
             ConcurrentRetrieve(r, hits)
       \/ \E a \in CodeAnswers : ConcurrentCode(r, a)
       \/ \E a \in ProbeAnswers : ConcurrentProbe(r, a)
       \/ \E a \in TextAnswers : ConcurrentText(r, a)
       \/ ConcurrentReturn(r)

SpecConcurrent == Init /\ [][NextConcurrent]_vars

(***************************************************************************)
(* Properties.                                                             *)
(***************************************************************************)
CallsOf(op) == {i \in DOMAIN calls : calls[i].op = op}

Count(op) == Cardinality(CallsOf(op))

BlankQueries == {"", "   "}

CodeFailed(i) ==
    calls[i].op = "generate_code_response" /\ calls[i].result \in {None, "", Raise}

\* C1: when the code backend was selected and the code adapter answered None
\* or the empty string, the outcome is never of kind "code"; a successful one
\* is the text produced by the text adapter under the default text model, a
\* failed one carries no response kind at all.
C1_CodeNoOutputNeverCode ==
    \A i \in CallsOf("generate_code_response") :
        (calls[i].result \in {None, ""} /\ outcome.returned) =>
            /\ model_type = CODE
            /\ outcome.response_type # "code"
            /\ outcome.success =>
                 /\ outcome.response_type = "text"
                 /\ outcome.metadata.model_used = "mistral:7b-instruct-q4_K_M"
                 /\ outcome.metadata.model_used # "qwen3:coder"
                 /\ \E j \in CallsOf("generate_response") :
                       /\ j > i
                       /\ calls[j].result = outcome.response
                       /\ calls[j].args.model_name = outcome.metadata.model_used
            /\ ~outcome.success =>
                 outcome.response_type = None /\ outcome.error # None

C1_Witness ==
    /\ pc = "done"
    /\ outcome.success
    /\ model = CODE
    /\ \E i \in CallsOf("generate_code_response") : calls[i].result = ""

\* C2: the fallback from code to default is one hop: the code adapter, the
\* text adapter and the retriever are each called at most once per request,
\* nothing but the default handler runs after a failed code generation, and
\* that handler receives the query and the context list the code handler
\* received, which is the list the retriever returned.
C2_SingleHopFallback ==
    /\ Count("generate_code_response") <= 1
    /\ Count("generate_response") <= 1
    /\ Count("search_relevant_context") <= 1
    /\ \A i \in DOMAIN calls : CodeFailed(i) =>
          /\ pc \in {"default", "generate", "done"}
          /\ \A j \in DOMAIN calls : j > i =>
                /\ calls[j].op \in {"_handle_default_generation",
                                    "_format_rag_prompt",
                                    "is_available", "generate_response"}
                /\ calls[j].op = "_handle_default_generation" =>
                      /\ calls[j].args.query = calls[i - 1].args.query
                      /\ calls[j].args.context_docs =
                            calls[i - 1].args.context_docs
          /\ context_docs = calls[i - 1].args.context_docs
          /\ \A r \in CallsOf("search_relevant_context") :
                r < i /\ calls[r].result.docs = context_docs

C2_Witness ==
    /\ pc = "done"
    /\ Len(context_docs) = 2
    /\ \E i \in DOMAIN calls : CodeFailed(i) /\ calls[i].result = Raise
    /\ Count("generate_response") = 1

\* C3: on the image branch nothing but the router and the image adapter is
\* ever called, and a failed image generation (no payload, or an exception)
\* ends the request with success = false.
C3_ImageBranchTerminal ==
    (model_type = IMAGE /\ pc \in {"image", "done"}) =>
        /\ \A i \in DOMAIN calls :
              calls[i].op \in {"route_request", "generate_image"}
        /\ \A i \in CallsOf("generate_image") :
              calls[i].result \in {None, Raise} =>
                 /\ pc = "done"
                 /\ outcome.returned
                 /\ ~outcome.success

C3_Witness ==
    /\ pc = "done"
    /\ model_type = IMAGE
    /\ \E i \in CallsOf("generate_image") : calls[i].result = None

\* C4: in every returned outcome the response is null exactly when success is
\* false.
C4_ResponseNullIffFailure ==
    outcome.returned => ((outcome.response = None) <=> ~outcome.success)

C4_Witness ==
    /\ pc = "done"
    /\ ~outcome.success
    /\ \E i \in CallsOf("generate_response") : calls[i].result = None

\* C5: a request ends with exactly one returned outcome whatever the
\* collaborators answer (a value, nothing, or an exception), and a failed
\* outcome carries a non-empty error string and a null response.
C5_NothingEscapes ==
    /\ (pc = "done") <=> outcome.returned
    /\ (outcome.returned /\ ~outcome.success) =>
          /\ outcome.error \notin {None, ""}
          /\ outcome.response = None

C5_Witness ==
    /\ pc = "done"
    /\ ~outcome.success
    /\ \E i \in CallsOf("is_available") : calls[i].result = Raise

\* C6: a fault inside retrieval (collection not ready, no embedding, failing
\* search) leaves the request with an empty context and the request goes on
\* to the code or default handler; its outcome is never the internal error.
C6_RetrievalNeverFatal ==
    \A i \in CallsOf("search_relevant_context") :
        calls[i].args.fault \in {"collection_not_ready", "no_embedding",
                                 "search_error"} =>
            /\ model_type \in {DEFAULT, CODE, WEB_SEARCH}
            /\ ~calls[i].result.raised
            /\ calls[i].result.docs = <<>>
            /\ context_docs = <<>>
            /\ pc \in {"code", "default", "generate", "done"}
            /\ pc = "done" =>
                 /\ \E j \in DOMAIN calls :
                       j > i /\ calls[j].op \in {"generate_code_response",
                                                 "is_available"}
                 /\ outcome.context = <<>>
                 /\ outcome.error # "Internal error: <exception>"

C6_Witness ==
    /\ pc = "done"
    /\ outcome.success
    /\ model_type = WEB_SEARCH
    /\ \E i \in CallsOf("search_relevant_context") :
          calls[i].args.fault = "search_error"

\* C7: when the availability probe answers false the request ends at once
\* with success = false and the "not available" error, the text generation
\* is never called, and the outcome's context is the list the retriever
\* returned.
C7_UnavailableTextBackend ==
    \A i \in CallsOf("is_available") :
        calls[i].result = "False" =>
            /\ i = Len(calls)
            /\ pc = "done"
            /\ outcome.returned
            /\ ~outcome.success
            /\ outcome.error = "LLM service (Ollama) not available"
            /\ Count("generate_response") = 0
            /\ Count("search_relevant_context") = 1
            /\ \A r \in CallsOf("search_relevant_context") :
                  outcome.context = calls[r].result.docs

C7_Witness ==
    /\ pc = "done"
    /\ Len(outcome.context) = 2
    /\ \E i \in CallsOf("is_available") : calls[i].result = "False"

\* C8: a request with an empty or whitespace-only query ends with a failed
\* outcome without any call to the router, the retriever, the probe or an
\* adapter.
C8_EmptyQueryRejectedFirst ==
    (pc # "idle" /\ query \in BlankQueries) =>
        /\ pc = "done"
        /\ outcome.returned
        /\ ~outcome.success
        /\ calls = <<>>

C8_Witness ==
    /\ pc = "done"
    /\ query = "   "
    /\ ~outcome.success

\* C9: an image request never calls the retriever and its outcome has an
\* empty context; a finished request with a non-empty query on the default,
\* code or web-enhanced backend has called the retriever exactly once.
C9_ContextPolicy ==
    /\ (model_type = IMAGE /\ pc \in {"image", "done"}) =>
          /\ Count("search_relevant_context") = 0
          /\ outcome.returned => outcome.context = <<>>
    /\ (pc = "done" /\ query \notin BlankQueries
          /\ model_type \in {DEFAULT, CODE, WEB_SEARCH}) =>
          Count("search_relevant_context") = 1

C9_Witness ==
    /\ pc = "done"
    /\ model_type = WEB_SEARCH
    /\ Count("search_relevant_context") = 1

\* C10: on the code branch the score threshold handed to the retriever is the
\* smaller of the requested threshold and 0.3.
C10_CodeThresholdCapped ==
    \A i \in CallsOf("search_relevant_context") :
        model_type = CODE =>
            /\ calls[i].args.score_threshold =
                 (IF context_score_threshold <= 30
                  THEN context_score_threshold ELSE 30)
            /\ calls[i].args.score_threshold <= 30

C10_Witness ==
    /\ model_type = CODE
    /\ context_score_threshold = 90
    /\ Count("search_relevant_context") = 1

AdapterOps == {"generate_image", "generate_code_response", "generate_response"}

AdapterCalls == {i \in DOMAIN calls : calls[i].op \in AdapterOps}

\* C11 as stated: retrieval precedes every prompt formatting and every prompt
\* formatting precedes every adapter call of the request.
C11_FormattingBeforeAnyAdapter ==
    /\ \A r \in CallsOf("search_relevant_context") :
          \A f \in CallsOf("_format_rag_prompt") : r < f
    /\ \A f \in CallsOf("_format_rag_prompt") :
          \A a \in AdapterCalls : f < a

\* C11, amended: retrieval precedes every prompt formatting and every adapter
\* call; the text prompt is formatted before the text backend is probed and
\* before the text generation that receives it; after a failed code
\* generation that formatting comes later than the code adapter's call.
C11_StepOrder ==
    /\ \A r \in CallsOf("search_relevant_context") :
          /\ \A f \in CallsOf("_format_rag_prompt") : r < f
          /\ \A a \in AdapterCalls : r < a
    /\ \A a \in CallsOf("is_available") \cup CallsOf("generate_response") :
          \E f \in CallsOf("_format_rag_prompt") :
              /\ f < a
              /\ calls[a].op = "generate_response" =>
                    calls[a].args.prompt = calls[f].result
    /\ \A c \in DOMAIN calls : CodeFailed(c) =>
          \A f \in CallsOf("_format_rag_prompt") : c < f

C11_Witness ==
    /\ pc = "done"
    /\ outcome.success
    /\ \E c \in DOMAIN calls : CodeFailed(c)
    /\ Count("search_relevant_context") = 1
    /\ Count("_format_rag_prompt") = 1
    /\ Count("generate_response") = 1

\* C12: every returned outcome of a routed request, successful or failed, has
\* metadata that names the model used and contains the routing decision.
C12_OutcomeFullyPopulated ==
    (outcome.returned /\ route_result.present) =>
        /\ outcome.metadata.present
        /\ outcome.metadata.model_used # None
        /\ outcome.metadata.routing = route_result

KnownBackends ==
    {"default", "qwen3:coder", "stable-diffusion", "web-enhanced"}

PrefersKnownBackend(md) ==
    md.kind = "dict" /\ md.preferred_model \in KnownBackends

\* C13 as stated: whatever the query, a preferred_model naming a known backend
\* is answered with that backend at confidence 1.0.
C13_PreferredModelAnyQuery ==
    (routed.called /\ PrefersKnownBackend(routed.metadata)) =>
        /\ routed.result.model_type = routed.metadata.preferred_model
        /\ routed.result.confidence = 70

\* C13, amended: for every query that is not empty or whitespace-only, a
\* preferred_model naming a known backend is answered with that backend at
\* confidence 1.0, whatever patterns the query matches.
C13_PreferredModelNonBlankQuery ==
    (routed.called /\ ~routed.blank /\ PrefersKnownBackend(routed.metadata)) =>
        /\ routed.result.model_type = routed.metadata.preferred_model
        /\ routed.result.confidence = 70
        /\ routed.scores = <<>>

C13_Witness ==
    /\ routed.called
    /\ ~routed.blank
    /\ routed.metadata = [kind |-> "dict", preferred_model |-> "stable-diffusion"]
    /\ routed.features.code_matches = 7
    /\ routed.result.model_type = "stable-diffusion"

Max4(a, b, c, d) ==
    LET m1 == IF a >= b THEN a ELSE b
        m2 == IF c >= d THEN c ELSE d
    IN  IF m1 >= m2 THEN m1 ELSE m2

\* C15: on the scored path the decision is the candidate of greatest
\* confidence among code, image, web-enhanced and default at 0.5, and among
\* equal maxima the first in that order.
C15_MaxWithTieOrder ==
    (routed.called /\ routed.scores # <<>>) =>
        LET code == routed.scores[1]
            image == routed.scores[2]
            web == routed.scores[3]
            best == Max4(code, image, web, 35)
        IN  /\ routed.result.confidence = best
            /\ routed.result.model_type =
                 (IF code = best THEN "qwen3:coder"
                  ELSE IF image = best THEN "stable-diffusion"
                  ELSE IF web = best THEN "web-enhanced"
                  ELSE "default")

C15_Witness ==
    /\ routed.called
    /\ routed.scores = <<20, 35, 35>>
    /\ routed.result.model_type = "stable-diffusion"
    /\ routed.result.confidence = 35

\* C16: an empty or whitespace-only prompt is answered with the default
\* backend at confidence 1.0, with or without metadata.
C16_BlankPromptDefault ==
    (routed.called /\ routed.blank) =>
        /\ routed.result.model_type = "default"
        /\ routed.result.confidence = 70

C16_Witness ==
    /\ routed.called
    /\ routed.blank
    /\ routed.metadata = [kind |-> "dict", preferred_model |-> "qwen3:coder"]
    /\ routed.result.model_type = "default"

Cap(x) == IF x > 70 THEN 70 ELSE x

\* C17: each family confidence is min(min(m / total * scale, 1) + bonus, 1)
\* with scale 2.0 and bonus 0.3 for the 7 code patterns, scale 3.0 and bonus
\* 0.4 for the 6 image patterns, scale 2.5 and no bonus for the 5 web
\* patterns, and lies between 0 and 1.
C17_FamilyConfidence ==
    (routed.called /\ routed.scores # <<>>) =>
        LET f == routed.features
        IN  /\ routed.scores[1] =
                 Cap(Cap((f.code_matches * 70 * 2) \div 7)
                     + (IF f.code_boost THEN 21 ELSE 0))
            /\ routed.scores[2] =
                 Cap(Cap((f.image_matches * 70 * 3) \div 6)
                     + (IF f.image_boost THEN 28 ELSE 0))
            /\ routed.scores[3] =
                 Cap((f.web_matches * 70 * 25) \div 50)
            /\ \A k \in 1..3 : routed.scores[k] \in 0..70

C17_Witness ==
    /\ routed.called
    /\ routed.features.code_matches = 7
    /\ routed.features.code_boost
    /\ routed.features.image_matches = 1
    /\ routed.features.web_matches = 5
    /\ routed.scores = <<70, 35, 70>>

\* C18: when the router fails internally (metadata that is not a mapping) it
\* still returns a decision, default at confidence 0.5 with the error in its
\* reasoning, and the request goes on through the default handler instead of
\* failing with an internal error.
C18_RoutingFaultAbsorbed ==
    \A i \in CallsOf("route_request") :
        calls[i].args.metadata.kind = "malformed" =>
            /\ calls[i].result.present
            /\ calls[i].result.model_type = "default"
            /\ calls[i].result.confidence = 35
            /\ calls[i].result.reasoning =
                 "Error in routing, defaulting to general model: <exception>"
            /\ route_result = calls[i].result
            /\ model_type = "default"
            /\ pc \in {"retrieve", "default", "generate", "done"}
            /\ pc = "done" =>
                 /\ Count("is_available") = 1
                 /\ outcome.error # "Internal error: <exception>"

C18_Witness ==
    /\ pc = "done"
    /\ outcome.success
    /\ metadata.kind = "malformed"
    /\ query = "Create an image of a red bicycle"
    /\ Count("route_request") = 1

\* C19: when the caller names a model the router is not called, there is no
\* routing decision, and the backend is the one whose name is the given
\* string, or the default one if no backend has that name; the query text and
\* the metadata play no part.
C19_ExplicitModelBypassesRouter ==
    (pc # "idle" /\ model \notin {"<None>", ""}) =>
        /\ Count("route_request") = 0
        /\ ~route_result.present
        /\ query \notin BlankQueries =>
             model_type = (IF model \in KnownBackends THEN model
                           ELSE "default")

C19_Witness ==
    /\ pc = "done"
    /\ model = "web-enhanced"
    /\ model_type = "web-enhanced"
    /\ query = "Create an image of a red bicycle"
    /\ metadata = [kind |-> "dict", preferred_model |-> "qwen3:coder"]

\* C20: the text generation runs under the caller's model name when one was
\* given and the default handler was entered directly, and under the default
\* model otherwise (no model given, or entry after a failed code generation);
\* a successful text outcome reports that same name as model_used.
C20_TextModelName ==
    \A g \in CallsOf("generate_response") :
        LET fallback == \E c \in DOMAIN calls : CodeFailed(c)
            explicit == model \notin {"<None>", ""}
        IN  /\ calls[g].args.model_name =
                 (IF explicit /\ ~fallback THEN model
                  ELSE "mistral:7b-instruct-q4_K_M")
            /\ (explicit /\ ~fallback) => calls[g].args.model = model
            /\ (outcome.returned /\ outcome.success) =>
                 /\ outcome.response_type = "text"
                 /\ outcome.metadata.model_used = calls[g].args.model_name

C20_Witness ==
    /\ pc = "done"
    /\ outcome.success
    /\ model = "llama3"
    /\ outcome.metadata.model_used = "llama3"
    /\ Count("generate_response") = 1

\* C24: on the scored path the returned confidence is at least 0.5, a backend
\* other than the default one is returned only when its own family confidence
\* is at least 0.5, and the low-confidence override is never taken.
C24_GateNeverTaken ==
    (routed.called /\ routed.scores # <<>>) =>
        /\ routed.result.confidence >= 35
        /\ routed.result.model_type = "qwen3:coder" => routed.scores[1] >= 35
        /\ routed.result.model_type = "stable-diffusion" =>
             routed.scores[2] >= 35
        /\ routed.result.model_type = "web-enhanced" => routed.scores[3] >= 35
        /\ routed.result.reasoning #
             "Low confidence in specialized model, defaulting to general model"

C24_Witness ==
    /\ routed.called
    /\ routed.scores = <<20, 0, 0>>
    /\ routed.result.model_type = "default"
    /\ routed.result.confidence = 35
    /\ routed.result.reasoning = "General query, using default model"

C22_KindMatchesProducer ==
    http.status = "200" =>
        /\ ~http.body.success =>
             /\ http.body.response_type = "error"
             /\ http.body.response = "<None>"
             /\ http.body.error # "<None>"
        /\ http.body.success =>
             /\ http.body.response_type \in {"image", "code", "text"}
             /\ http.body.response \notin {"<None>", "<raise>"}
             /\ http.body.response_type = "image" =>
                  \E i \in CallsOf("generate_image") :
                     calls[i].result = http.body.response
             /\ http.body.response_type = "code" =>
                  \E i \in CallsOf("generate_code_response") :
                     calls[i].result = http.body.response
             /\ http.body.response_type = "text" =>
                  \E i \in CallsOf("generate_response") :
                     calls[i].result = http.body.response

C22_Witness ==
    /\ http.status = "200"
    /\ ~http.body.success
    /\ http.body.response_type = "error"
    /\ \E i \in CallsOf("generate_image") : calls[i].result = "<None>"

\* C29: a context_threshold supplied with the /generate request, 0.0
\* included, is the context_score_threshold of the dispatched request, 0.5 is
\* used when none is supplied, and for the default and web-enhanced backends
\* the retriever is called with that same value.
C29_ThresholdForwarded ==
    (http.status = "pending" /\ pc # "idle") =>
        /\ context_score_threshold =
             (IF http.request.context_threshold = NoThreshold THEN 50
              ELSE http.request.context_threshold)
        /\ \A i \in CallsOf("search_relevant_context") :
              model_type \in {"default", "web-enhanced"} =>
                 calls[i].args.score_threshold = context_score_threshold

\* C28: /route answers a blank query with status 400 and the detail "Query
\* cannot be empty", answers every other query with success and the routing
\* decision, and calls neither the retriever nor a generation backend.
C28_RouteEndpoint ==
    api_route.status # "idle" =>
        /\ api_route.blank =>
             /\ api_route.status = "400"
             /\ api_route.detail = "Query cannot be empty"
        /\ ~api_route.blank =>
             /\ api_route.status = "200"
             /\ api_route.success
             /\ api_route.routing.present
        /\ calls = <<>>

\* C26: every document that is in the collection before an add_knowledge
\* call is still in the collection after it.
C26_KnowledgeOnlyGrows ==
    [][\A id \in DOMAIN kb.points :
          \E kept \in DOMAIN kb'.points :
             kb'.points[kept].payload = kb.points[id].payload]_vars

\* C27: after a successful add, every stored document is stored with the
\* embedding of its own text, no document with an empty text is stored, and
\* every document of the batch with a non-empty text is stored.
C27_BatchStoredAligned ==
    (kb.called /\ kb.result.success) =>
        /\ \A id \in DOMAIN kb.written :
              /\ kb.written[id].vector =
                   [embedding_of |-> kb.written[id].payload.text]
              /\ kb.written[id].payload.text \notin {"", "   "}
        /\ \A i \in DOMAIN kb.documents :
              kb.documents[i].text \notin {"", "   "} =>
                 \E id \in DOMAIN kb.points :
                    kb.points[id].payload = kb.documents[i]

RECURSIVE ChunksOfSuccessful(_)
ChunksOfSuccessful(results) ==
    IF Len(results) = 0 THEN 0
    ELSE (IF Head(results).success THEN Head(results).chunks_added_to_rag
          ELSE 0) + ChunksOfSuccessful(Tail(results))

\* C30: scrape_multiple_urls takes the URLs in input order, one result entry
\* per URL whether the URL succeeded, failed or raised, and returns
\* successful_urls + failed_urls = total_urls = number of result entries,
\* with total_chunks_added the sum of chunks_added_to_rag over the successful
\* entries.
C30_BatchAccounting ==
    /\ scrape.pc = "loop" =>
         /\ Len(scrape.results) = scrape.i
         /\ \A k \in 1..Len(scrape.results) :
               scrape.results[k].url = scrape.urls[k]
    /\ scrape.pc = "returned" =>
         LET ret == scrape.returned
         IN  /\ ret.success
             /\ ret.total_urls = Len(scrape.urls)
             /\ Len(ret.results) = ret.total_urls
             /\ \A k \in 1..Len(ret.results) :
                   ret.results[k].url = scrape.urls[k]
             /\ ret.successful_urls + ret.failed_urls = ret.total_urls
             /\ ret.successful_urls =
                  Cardinality({k \in 1..Len(ret.results) :
                                  ret.results[k].success})
             /\ ret.total_chunks_added = ChunksOfSuccessful(ret.results)

C30_Witness ==
    /\ scrape.pc = "returned"
    /\ Len(scrape.urls) = 3
    /\ scrape.returned.results[1].error = "<exception>"
    /\ ~scrape.returned.results[2].success
    /\ scrape.returned.results[3].success
    /\ scrape.returned.total_chunks_added = 2
    /\ scrape.returned.failed_urls = 2

\* The outcome of generate_contextual_response(q, m) run on its own when the
\* collaborators give the answers `ans`.
OutcomeAlone(q, m, ans) ==
    LET explicit == m \notin {"<None>", ""}
        rr == IF explicit THEN NoRoute ELSE route_request(q, MetaNone)
        mt == IF explicit THEN RequestedModelType(m) ELSE rr.model_type
        docs == search_relevant_context(q, "none", ans.docs).docs
        Text(sm) ==
            IF ans.probe = "<raise>" THEN DefaultExcept(q, docs)
            ELSE IF ans.probe = "False" THEN Unavailable(q, docs)
            ELSE IF ans.text = "<raise>" THEN DefaultExcept(q, docs)
            ELSE WithRouting(TextOutcome(q, docs, ans.text, sm), rr)
    IN  IF q \in BlankQueries THEN Failure("Empty query provided", q, <<>>)
        ELSE IF mt = "stable-diffusion"
        THEN WithRouting(ImageOutcome(q, ans.image), rr)
        ELSE IF mt = "qwen3:coder"
        THEN IF ans.code \notin {"<None>", "", "<raise>"}
             THEN WithRouting(Success(q, docs, ans.code, "code",
                                      "qwen3:coder"), rr)
             ELSE Text("<None>")
        ELSE Text(m)

\* C23: however the steps of two requests are interleaved, the outcome of
\* each is the outcome it would have had running alone with the same
\* collaborator answers.
C23_NoInterference ==
    \A r \in Requests :
        inflight[r].pc = "done" =>
            inflight[r].outcome =
                OutcomeAlone(inflight[r].query, inflight[r].model,
                             inflight[r].answers)

C23_Witness ==
    /\ inflight[1].pc = "done"
    /\ inflight[1].query = "Write a function to reverse a string"
    /\ inflight[1].fell_back
    /\ inflight[1].outcome.success
    /\ Len(inflight[1].outcome.context) = 2
    /\ inflight[2].pc = "generate"
    /\ inflight[2].query = "What is the capital of France"
    /\ inflight[2].context_docs = <<>>

\* C25: two requests that reached the default handler through the
\* code-failure fallback with the same query and the same context hand the
\* same prompt to the text adapter, whether the code backend was chosen by
\* the router or named by the caller.
C25_FallbackPromptSame ==
    \A a \in Requests : \A b \in Requests :
        (/\ inflight[a].fell_back
         /\ inflight[b].fell_back
         /\ inflight[a].pc = "done" /\ inflight[a].answers.probe = "True"
         /\ inflight[b].pc = "done" /\ inflight[b].answers.probe = "True"
         /\ inflight[a].query = inflight[b].query
         /\ inflight[a].context_docs = inflight[b].context_docs) =>
            inflight[a].formatted_prompt = inflight[b].formatted_prompt

====
